---------------------------- MODULE Spec2Model ----------------------------
(***************************************************************************)
(* Digital Legacy encryption / decryption sessions                         *)
(* (src/internals/scripts/decrypt.py, src/internals/scripts/encrypt.py).   *)
(*                                                                         *)
(* One behaviour is one session: DigitalLegacyDecryptor.run or             *)
(* DigitalLegacyEncryptor.run, from construction to process exit.  The     *)
(* variable pc is the position of the single thread of control; the user,  *)
(* the file system and the three external tools (age-keygen,               *)
(* age-plugin-sss, age) are the environment, and every answer they can     *)
(* give is a nondeterministic choice of the step that asks.                *)
(*                                                                         *)
(* Text is modelled by tokens: a file is a sequence of lines and a line is *)
(* a record naming the lexical shape the regular expressions of the code   *)
(* distinguish.                                                            *)
(***************************************************************************)
EXTENDS Integers, Sequences, FiniteSets, TLC

\* ------------------------------------------------------------------ bounds
\* Thresholds 0..MaxThreshold are written into the generated policy files.
MaxThreshold == 3

\* ----------------------------------------------------------- small helpers
None == "None"

Min(S) == CHOOSE x \in S : \A y \in S : x <= y

Range(s) == {s[i] : i \in DOMAIN s}

\* ------------------------------------------------------- lines of a file
Line(k, n, id) == [k |-> k, n |-> n, id |-> id]
\* "threshold: <n>"
Thr(n) == Line("threshold_digits", n, "")
\* "threshold: "          (the blank placeholder's first line)
ThrBlank == Line("threshold_blank", 0, "")
\* "threshold: -1"        (no digit follows the field marker)
ThrNeg == Line("threshold_minus", 1, "")
\* "shares:" or "shares: "
SharesHdr == Line("shares", 0, "")
\* "  - <id>" with <id> of the shape age1\S+
Share(id) == Line("share", 0, id)
\* "  - age1"             (matches age1.* but not age1\S+)
ShareBare == Line("share_bare", 0, "")
\* "  - "                 (an empty identity slot)
ShareBlank == Line("share_blank", 0, "")
\* "# ..."
Comment == Line("comment", 0, "")
\* ""
Blank == Line("blank", 0, "")
\* "AGE-SECRET-KEY-XXXX" alone on its line
SecretLine(s) == Line("secret", 0, s)
\* a secret followed or preceded by other characters on the same line, or
\* written in lower case: no line of the file matches ^(AGE-SECRET-KEY-[A-Z0-9]+)$
JunkLine == Line("junk", 0, "")


\* ------------------------------------------- decrypt.py: policy artifact
\* A faulty variant of ThresholdMatch: `(\d*)`, which takes a field marker with
\* nothing after it as the threshold 0.
ThresholdMatch_Lenient(content) ==
  LET hits == {i \in DOMAIN content :
                 content[i].k \in {"threshold_digits", "threshold_blank"}}
  IN  IF hits = {} THEN -1 ELSE content[Min(hits)].n

\* re.search(r'threshold:\s*(\d+)', config_content): the first place where the
\* field marker is followed by digits.  No line of the alphabet begins with a
\* digit, so the marker and the digits are on one line.  -1: no match.
ThresholdMatch(content) ==
  LET hits == {i \in DOMAIN content : content[i].k = "threshold_digits"}
  IN  IF hits = {} THEN -1 ELSE content[Min(hits)].n

IsShareLike(l) == l.k \in {"share", "share_bare"}

\* The first line after line i that is not blank (0 when there is none):
\* \s* of the pattern runs over blank lines.
RECURSIVE NextNonBlank(_, _)
NextNonBlank(content, i) ==
  IF i + 1 > Len(content) THEN 0
  ELSE IF content[i + 1].k = "blank" THEN NextNonBlank(content, i + 1)
  ELSE i + 1

\* re.search(r'shares:\s*\n((?:\s*-\s*age1.*\n?)+)', config_content): the
\* first "shares:" line whose next non-blank line is "- age1...".  0: no match.
SharesMatch(content) ==
  LET hits == {i \in DOMAIN content :
                 /\ content[i].k = "shares"
                 /\ NextNonBlank(content, i) # 0
                 /\ IsShareLike(content[NextNonBlank(content, i)])}
  IN  IF hits = {} THEN 0 ELSE Min(hits)

\* The loop over shares_content.split('\n') with re.search(r'-\s*(age1\S+)'):
\* the keys of the run of "- age1..." lines that starts at line i, in file
\* order; a bare "- age1" is part of the run and gives no key.
RECURSIVE SharesKeys(_, _)
SharesKeys(content, i) ==
  IF i > Len(content) THEN <<>>
  ELSE IF content[i].k = "share" THEN <<content[i].id>> \o SharesKeys(content, i + 1)
  ELSE IF content[i].k \in {"share_bare", "blank"} THEN SharesKeys(content, i + 1)
  ELSE <<>>

\* get_recipient_config once the file has been read: the config, or the
\* message of the DecryptionError it raises.
get_recipient_config(content) ==
  IF ThresholdMatch(content) < 0
    THEN [ok |-> FALSE, err |-> "Unable to find threshold value in config file"]
  ELSE IF SharesMatch(content) = 0
    THEN [ok |-> FALSE, err |-> "Unable to find shares in config file"]
  ELSE LET public_keys == SharesKeys(content, SharesMatch(content) + 1)
       IN  [ok |-> TRUE, err |-> "",
            threshold |-> ThresholdMatch(content),
            total_shares |-> Len(public_keys),
            recipient_public_keys |-> public_keys]

\* ------------------------------------------- encrypt.py: policy artifact
\* A faulty variant of the next definition: the "shares:" line left out.
generate_key_config_NoHeader(threshold, public_keys) ==
  <<Thr(threshold)>> \o [i \in 1..Len(public_keys) |-> Share(public_keys[i])]

\* generate_key_config: "threshold: t", "shares:", then one "  - key" per key.
generate_key_config(threshold, public_keys) ==
  <<Thr(threshold), SharesHdr>> \o [i \in 1..Len(public_keys) |-> Share(public_keys[i])]

\* set_up_paths_and_validation: the blank config written when none is found.
BlankConfig == <<ThrBlank, SharesHdr, ShareBlank, ShareBlank, Comment>>

\* ------------------------------------------------ decrypt.py: key files
\* test_secret_key_format: re.search(r'^(AGE-SECRET-KEY-[A-Z0-9]+)$', MULTILINE).
test_secret_key_format(key_content) ==
  \E i \in DOMAIN key_content : key_content[i].k = "secret"

\* A faulty variant of the next definition: the format test left out,
\* `match.group(1) if match else None` returned as it is.
get_secret_key_from_file_Unchecked(key_content) ==
  [ok |-> TRUE, err |-> "",
   secret |-> IF test_secret_key_format(key_content)
                THEN key_content[Min({i \in DOMAIN key_content : key_content[i].k = "secret"})].id
                ELSE None]

\* get_secret_key_from_file after the read: the first standalone secret line.
get_secret_key_from_file(key_content) ==
  IF ~test_secret_key_format(key_content)
    THEN [ok |-> FALSE, err |-> "Invalid secret key format", secret |-> None]
  ELSE [ok |-> TRUE, err |-> "",
        secret |-> key_content[Min({i \in DOMAIN key_content : key_content[i].k = "secret"})].id]

\* age-keygen without arguments: the i-th key pair it generates in a session.
GeneratedPublic(i) ==
  <<"age1g1", "age1g2", "age1g3", "age1g4", "age1g5", "age1g6", "age1g7",
    "age1g8", "age1g9", "age1g10">>[i]

GeneratedSecret(i) ==
  <<"SG1", "SG2", "SG3", "SG4", "SG5", "SG6", "SG7", "SG8", "SG9", "SG10">>[i]

\* test_public_key_format: re.match(r'^age1[a-z0-9]+$'), over the strings the
\* key tool of the model can print.
WellFormedPublicKeys ==
  {"age1a", "age1b", "age1c", "age1x"} \cup {GeneratedPublic(i) : i \in 1..10}

test_public_key_format(public_key) == public_key \in WellFormedPublicKeys

\* age-keygen -y: what the tool can answer for a secret on standard input.
\* SA, SB, SX and the generated secrets are secrets of real key pairs; SM is
\* a secret the tool cannot use: it reports it malformed, fails otherwise, or
\* prints something that is no public key.
ToolResult(stderr, returncode, stdout) ==
  [stderr |-> stderr, returncode |-> returncode, stdout |-> stdout]

KeygenDerive(secret) ==
  CASE secret = "SA" -> {ToolResult("", 0, "age1a")}
    [] secret = "SB" -> {ToolResult("", 0, "age1b")}
    [] secret = "SX" -> {ToolResult("", 0, "age1x")}
    [] secret \in {GeneratedSecret(i) : i \in 1..10}
         -> {ToolResult("", 0, GeneratedPublic(CHOOSE i \in 1..10 : GeneratedSecret(i) = secret))}
    [] OTHER -> {ToolResult("malformed secret key", 1, ""),
                 ToolResult("exit status 1", 1, ""),
                 ToolResult("", 0, "AGE1?")}

\* get_public_key_from_secret once the tool has answered.
get_public_key_from_secret(r) ==
  IF r.stderr = "malformed secret key"
    THEN [ok |-> FALSE, err |-> "Could not derive a valid age public key", public_key |-> None]
  ELSE IF r.returncode # 0
    THEN [ok |-> FALSE, err |-> "Error validating secret key", public_key |-> None]
  ELSE IF ~test_public_key_format(r.stdout)
    THEN [ok |-> FALSE, err |-> "Generated public key doesn't match expected format", public_key |-> None]
  ELSE [ok |-> TRUE, err |-> "", public_key |-> r.stdout]

\* A faulty variant of the next definition: the membership test never raises.
test_key_usage_for_file_Skipped(public_key, valid_public_keys) == FALSE

\* test_key_usage_for_file: TRUE when it raises.
test_key_usage_for_file(public_key, valid_public_keys) ==
  public_key \notin Range(valid_public_keys)

\* A faulty variant of the next definition: `if self.attempted_keys.get(key_path)`,
\* which lets a declined path through.
test_key_path_already_attempted_AcceptedOnly(key_path, attempted_keys) ==
  key_path \in DOMAIN attempted_keys /\ attempted_keys[key_path]

\* test_key_path_already_attempted: TRUE when it raises.
test_key_path_already_attempted(key_path, attempted_keys) ==
  key_path \in DOMAIN attempted_keys

\* The text of its error: "This file has already been accepted/declined".
AlreadyMessage(key_path, attempted_keys) ==
  IF attempted_keys[key_path] THEN "already accepted" ELSE "already declined"

\* .strip().lower() of an answer typed at a y/n prompt.
StripLower(answer) ==
  CASE answer = "Y" -> "y"
    [] answer = " yes " -> "yes"
    [] answer = "YES" -> "yes"
    [] OTHER -> answer

\* --------------------------------------------------------- environment
Tools == {"age", "age-keygen", "age-plugin-sss"}

\* The key files the user can pick in the chooser.
Paths == {"kA", "kB", "kA2", "kX", "kBad", "kM"}

\* kA is a key file as age-keygen writes it, kA2 a copy of it on removable
\* media, kB a bare secret, kX the key of an identity outside the policy,
\* kBad a file without a standalone secret line, kM a secret the tool rejects.
KeyFiles ==
  [p \in Paths |->
     CASE p = "kA"   -> <<Comment, Comment, SecretLine("SA")>>
       [] p = "kA2"  -> <<Comment, Comment, SecretLine("SA")>>
       [] p = "kB"   -> <<SecretLine("SB")>>
       [] p = "kX"   -> <<Comment, SecretLine("SX")>>
       [] p = "kBad" -> <<Comment, JunkLine>>
       [] OTHER      -> <<SecretLine("SM")>>]

\* Paths whose read_text can raise (media removed, permissions).
IOErrorPaths == {"kA2"}

\* Identity lists of the generated policies.
IdLists == {<<"age1b">>, <<"age1a", "age1b">>, <<"age1a", "age1b", "age1c">>}

\* Policy artifacts found in the encrypted folder: generated ones and
\* hand-edited ones.
PolicyFiles ==
  {generate_key_config(t, ids) : t \in 0..MaxThreshold, ids \in IdLists}
  \cup {BlankConfig,
        <<SharesHdr, Share("age1a"), Share("age1b")>>,
        <<Thr(1), Comment>>,
        <<Thr(1), SharesHdr>>,
        <<Thr(1), SharesHdr, ShareBlank, Share("age1a")>>,
        <<Thr(1), SharesHdr, ShareBare>>,
        <<ThrNeg, SharesHdr, Share("age1a")>>,
        <<Thr(2), SharesHdr, Share("age1a"), Comment, Share("age1b")>>,
        <<Comment, Thr(2), Blank, SharesHdr, Blank, Share("age1a"), Blank, Share("age1b"), Comment>>}


\* What the user can type at a y/n prompt.
Answers == {"y", "Y", "yes", " yes ", "yep", "n", "no", ""}

\* ------------------------------------------------- cipher output names
\* A file name of the shape the scripts give their output, as its parts;
\* counter 0 stands for a name without the " (n)" part.
OutputName(prefix, label, counter, ext) ==
  [prefix |-> prefix, label |-> label, counter |-> counter, ext |-> ext]

\* No output path has been chosen.
NoPath == OutputName("", "", 0, <<>>)

\* save_decrypted_file: "[SENSITIVE] {base_name} - Decrypted {timestamp}{extension}"
\* and "[SENSITIVE] {base_name} - Decrypted {timestamp} ({counter}){extension}".
decrypted_filename(extension, counter) ==
  OutputName("[SENSITIVE] ", "Decrypted", counter, <<extension>>)

\* encrypt_file: "{source_filename} - Encrypted {timestamp}{source_filesuffix}.age"
\* and "[SENSITIVE] {source_filename} - Encrypted {timestamp} ({counter}).age".
encrypted_filename(source_filesuffix, counter) ==
  IF counter = 0
    THEN OutputName("", "Encrypted", 0, <<source_filesuffix, ".age">>)
    ELSE OutputName("[SENSITIVE] ", "Encrypted", counter, <<".age">>)

output_filename(script, suffix, counter) ==
  IF script = "decrypt" THEN decrypted_filename(suffix, counter)
                        ELSE encrypted_filename(suffix, counter)

\* The largest counter of a name that is taken when a session starts.
MaxExisting == 1

\* The names of today's date that can be taken in the output folder when a
\* session starts.
OutputListings(script, suffix) ==
  SUBSET {output_filename(script, suffix, n) : n \in 0..MaxExisting}

\* A faulty variant of the next definition: `if output_path.exists()` in
\* place of the while loop.
unique_output_path_Once(script, suffix, counter, listing) ==
  IF output_filename(script, suffix, counter) \in listing
    THEN output_filename(script, suffix, counter + 1)
    ELSE output_filename(script, suffix, counter)

\* `while output_path.exists()`: the first name, then the names numbered
\* 1, 2, ... until one is free.
RECURSIVE unique_output_path(_, _, _, _)
unique_output_path(script, suffix, counter, listing) ==
  IF output_filename(script, suffix, counter) \in listing
    THEN unique_output_path(script, suffix, counter + 1, listing)
    ELSE output_filename(script, suffix, counter)

\* ---------------------------------------------------------------- state
VARIABLES
  flow,                \* "decrypt" or "encrypt": which script runs
  pc,                  \* position of the thread of control in run()
  fs,                  \* the folders at start: missing binaries, *.age and *.yaml counts
  policy,              \* content of the policy artifact in the encrypted folder
  temp_dir,            \* self.temp_dir
  tempExists,          \* whether the scoped working directory is on disk
  tempFiles,           \* the files in it
  rmtreeCalls,         \* how often shutil.rmtree has run
  required_key_count,  \* self.required_key_count
  total_shares,        \* self.total_shares
  valid_public_keys,   \* self.valid_public_keys
  total_steps,         \* total_steps of run()
  attempted_keys,      \* self.attempted_keys: path -> accepted?
  key_secrets,         \* self.key_secrets
  valid_key_count,     \* valid_key_count of run()
  current_key_number,  \* current_key_number of run()
  current_step,        \* current_step of run()
  key_path,            \* the candidate being validated
  secret_key,          \* its secret
  public_key,          \* the identity derived from it
  collector,           \* NotStarted, Idle, Validating or Complete
  steps,               \* the validation steps run for the last candidate, in order
  invoked,             \* the external tool invocations of the session
  requested,           \* whether a candidate key file has been asked for
  error,               \* the last error shown to the user
  handler,             \* the except clause of run() that caught the session's exception
  input,               \* what the user did at the last prompt
  output,              \* the file the cipher tool writes: "none", "written" or "partial"
  source_file,         \* encrypt: self.source_file
  key_choice,          \* encrypt: "1" (new keys) or "2" (existing recipients)
  num_identities,      \* encrypt: number of key files to generate
  threshold,           \* encrypt: number of keys required to decrypt
  key_names,           \* encrypt: the names typed for the keys
  public_keys,         \* encrypt: public keys of the keys generated so far
  keysDir,             \* encrypt: the key files written, name -> secret
  outDir,              \* names taken in the folder the cipher output goes to
  output_path          \* the output path handed to age, NoPath before

envVars == <<flow, fs, policy>>
dirVars == <<temp_dir, tempExists, tempFiles, rmtreeCalls>>
cfgVars == <<required_key_count, total_shares, valid_public_keys, total_steps>>
quorumVars == <<attempted_keys, key_secrets, valid_key_count, current_key_number, current_step>>
localVars == <<key_path, secret_key, public_key>>
outVars == <<output, output_path, outDir>>
encVars == <<source_file, key_choice, num_identities, threshold, key_names,
             public_keys, keysDir>>

vars == <<flow, pc, fs, policy, temp_dir, tempExists, tempFiles, rmtreeCalls,
          required_key_count, total_shares, valid_public_keys, total_steps,
          attempted_keys, key_secrets, valid_key_count, current_key_number,
          current_step, key_path, secret_key, public_key, collector, steps,
          invoked, requested, error, handler, input, output, source_file,
          key_choice, num_identities, threshold, key_names, public_keys,
          keysDir, outDir, output_path>>

\* The folders a session can start in.
\* dirExists: whether the encrypted folder itself exists.
Folders ==
  [missing : SUBSET Tools, nAge : 0..2, nYaml : 0..2, dirExists : {TRUE}]
  \cup [missing : SUBSET Tools, nAge : {0}, nYaml : {0}, dirExists : {FALSE}]

GoodFolders == [missing |-> {}, nAge |-> 1, nYaml |-> 1, dirExists |-> TRUE]

DefaultPolicy == generate_key_config(2, <<"age1a", "age1b", "age1c">>)

\* The state both constructors leave, and the variables of the other script.
InitCommon ==
  /\ temp_dir = None
  /\ tempExists = FALSE
  /\ tempFiles = {}
  /\ rmtreeCalls = 0
  /\ required_key_count = 0
  /\ total_shares = 0
  /\ valid_public_keys = <<>>
  /\ attempted_keys = [p \in {} |-> FALSE]
  /\ key_secrets = <<>>
  /\ valid_key_count = 0
  /\ current_key_number = 0
  /\ key_path = None
  /\ secret_key = None
  /\ public_key = None
  /\ collector = "NotStarted"
  /\ steps = <<>>
  /\ invoked = {}
  /\ requested = FALSE
  /\ error = ""
  /\ handler = "none"
  /\ input = ""
  /\ output = "none"
  /\ output_path = NoPath
  /\ source_file = None
  /\ key_choice = ""
  /\ num_identities = 0
  /\ threshold = 0
  /\ key_names = <<>>
  /\ public_keys = <<>>
  /\ keysDir = [f \in {} |-> ""]

\* DigitalLegacyDecryptor.__init__
InitDecrypt ==
  /\ flow = "decrypt"
  /\ pc = "d_setup"
  /\ \/ fs \in Folders /\ policy = DefaultPolicy
     \/ fs = GoodFolders /\ policy \in PolicyFiles
  /\ outDir \in OutputListings("decrypt", ".txt")
  /\ current_step = 0
  /\ total_steps = 0
  /\ InitCommon

\* An exception reaches the except clauses of run(): the clause `h` prints
\* `msg` and control falls into the finally block.
Raise(h, msg) ==
  /\ pc' = "teardown"
  /\ handler' = h
  /\ error' = msg

\* input() at a prompt: a line, Ctrl-C (KeyboardInterrupt) or end of input
\* (EOFError).
Keys == {"line", "^C", "EOF"}

Invocation(tool, arg) == [tool |-> tool, arg |-> arg]

\* A faulty variant of the next definition: `<=` in place of `<`.
LoopTest_OffByOne(count, required) == IF count <= required THEN "d_resolve" ELSE "d_combine"

\* The condition of `while valid_key_count < self.required_key_count`.
LoopTest(count, required) == IF count < required THEN "d_resolve" ELSE "d_combine"

CollectorAt(p) == IF p = "d_resolve" THEN "Idle" ELSE "Complete"

\* `continue`, or the end of the loop body: back to the while condition with
\* the quorum state as given.
LoopHead(count) ==
  /\ pc' = LoopTest(count, required_key_count)
  /\ collector' = CollectorAt(LoopTest(count, required_key_count))
  /\ UNCHANGED handler

\* A faulty variant of the next definition: the two `elif len(...) > 1`
\* branches left out.
SetupProblems_NoTooMany(f) == f.missing # {} \/ f.nAge = 0 \/ f.nYaml = 0

\* set_up_paths_and_validation of decrypt.py: whether missing_files is not
\* empty at its end.
SetupProblems(f) == f.missing # {} \/ f.nAge # 1 \/ f.nYaml # 1

\* set_up_paths_and_validation, set_up_temp_directory, prepare_environment
DSetup ==
  /\ pc = "d_setup"
  /\ IF SetupProblems(fs)
       THEN /\ Raise("DecryptionError", "Missing required files")
            /\ UNCHANGED dirVars
       ELSE \/ /\ temp_dir' = "tmp"
               /\ tempExists' = TRUE
               /\ pc' = "d_load"
               /\ UNCHANGED <<tempFiles, rmtreeCalls, handler, error>>
            \/ \* tempfile.mkdtemp raises OSError
               /\ Raise("Exception", "Unexpected error")
               /\ UNCHANGED dirVars
  /\ UNCHANGED <<encVars, envVars, cfgVars, quorumVars, localVars, collector, steps,
                 invoked, requested, input, outVars>>

\* get_recipient_config and the assignments of its result, up to the banner
\* of step 1.
DLoad ==
  /\ pc = "d_load"
  /\ \/ \* the config file is gone since set_up_paths_and_validation saw it
        /\ Raise("DecryptionError", "Config file not found")
        /\ UNCHANGED <<cfgVars, current_step>>
     \/ LET config == get_recipient_config(policy)
        IN  IF ~config.ok
              THEN /\ Raise("DecryptionError", config.err)
                   /\ UNCHANGED <<cfgVars, current_step>>
              ELSE /\ valid_public_keys' = config.recipient_public_keys
                   /\ required_key_count' = config.threshold
                   /\ total_shares' = config.total_shares
                   /\ total_steps' = config.threshold + 3
                   /\ current_step' = 2
                   /\ pc' = "d_begin"
                   /\ UNCHANGED <<handler, error>>
  /\ UNCHANGED <<encVars, envVars, dirVars, attempted_keys, key_secrets, valid_key_count,
                 current_key_number, localVars, collector, steps, invoked,
                 requested, input, outVars>>

\* wait_for_keypress("Press Enter to begin..."), then the loop is entered.
DBegin ==
  /\ pc = "d_begin"
  /\ \E k \in Keys :
       /\ input' = k
       /\ CASE k = "^C" -> /\ Raise("KeyboardInterrupt", "Operation cancelled by user")
                           /\ UNCHANGED <<valid_key_count, current_key_number, collector>>
            [] k = "EOF" -> /\ Raise("Exception", "Unexpected error")
                            /\ UNCHANGED <<valid_key_count, current_key_number, collector>>
            [] OTHER -> /\ valid_key_count' = 0
                        /\ current_key_number' = 1
                        /\ LoopHead(0)
                        /\ UNCHANGED error
  /\ UNCHANGED <<encVars, envVars, dirVars, cfgVars, attempted_keys, key_secrets,
                 current_step, localVars, steps, invoked, requested, outVars>>


\* self.attempted_keys[key_path] = outcome
Record(ledger, path, outcome) ==
  [p \in DOMAIN ledger \cup {path} |-> IF p = path THEN outcome ELSE ledger[p]]

\* The files the user can pick in the chooser: the key files an encrypt
\* session has generated, when the session follows one, otherwise the
\* user's own files.
ChooserFiles == IF DOMAIN keysDir = {} THEN Paths ELSE DOMAIN keysDir

\* Path(key_path).read_text(): a generated key file holds the output of
\* age-keygen as save_key_file wrote it, "# created: ...", "# public key: ..."
\* and the secret on a line of its own.
KeyFileContent(p) ==
  IF p \in DOMAIN keysDir
    THEN <<Comment, Comment, SecretLine(keysDir[p])>>
    ELSE KeyFiles[p]

\* The banner of the key step and get_key_file_from_user.  Its `except
\* Exception` turns every failure but Ctrl-C into a DecryptionError, which
\* run() answers with the retry question.
DResolve ==
  /\ pc = "d_resolve"
  /\ requested' = TRUE
  /\ \/ \* tk.Tk() fails, or end of input at "Press Enter to launch"
        /\ input' \in {"EOF", "no display"}
        /\ error' = "Error selecting file"
        /\ pc' = "d_retry"
        /\ UNCHANGED <<localVars, collector, steps, handler>>
     \/ \* the dialog is closed without a file
        /\ input' = "line"
        /\ error' = "Error selecting file: No key file selected."
        /\ pc' = "d_retry"
        /\ UNCHANGED <<localVars, collector, steps, handler>>
     \/ /\ input' = "^C"
        /\ Raise("KeyboardInterrupt", "Operation cancelled by user")
        /\ UNCHANGED <<localVars, collector, steps>>
     \/ \E p \in ChooserFiles :
          /\ input' = "line"
          /\ key_path' = p
          /\ secret_key' = None
          /\ public_key' = None
          /\ collector' = "Validating"
          /\ steps' = <<"resolve">>
          /\ error' = ""
          /\ pc' = "d_dupcheck"
          /\ UNCHANGED handler
  /\ UNCHANGED <<encVars, envVars, dirVars, cfgVars, quorumVars, invoked, outVars>>

\* "Would you like to try again? (y/n)".  The raise of "You terminated the
\* program" happens inside the loop's own try block, whose `except
\* DecryptionError` prints it; the while condition is evaluated next.
DRetry ==
  /\ pc = "d_retry"
  /\ \/ \E a \in Answers :
          /\ input' = a
          /\ IF StripLower(a) \in {"y", "yes"}
               THEN /\ LoopHead(valid_key_count)
                    /\ UNCHANGED error
               ELSE /\ error' = "Unexpected error during key processing: You terminated the program"
                    /\ LoopHead(valid_key_count)
     \/ /\ input' = "^C"
        /\ Raise("KeyboardInterrupt", "Operation cancelled by user")
        /\ UNCHANGED collector
     \/ /\ input' = "EOF"
        /\ Raise("Exception", "Unexpected error")
        /\ UNCHANGED collector
  /\ UNCHANGED <<encVars, envVars, dirVars, cfgVars, quorumVars, localVars, steps,
                 invoked, requested, outVars>>

\* A faulty variant of the next definition: the error leaves the loop and
\* reaches the except clauses of run().
Rejected_Escalated(msg) ==
  /\ Raise("DecryptionError", msg)
  /\ key_path' = None
  /\ secret_key' = None
  /\ public_key' = None
  /\ UNCHANGED collector

\* The candidate's pipeline ends without acceptance: the locals are dead.
Rejected(msg) ==
  /\ error' = msg
  /\ key_path' = None
  /\ secret_key' = None
  /\ public_key' = None
  /\ LoopHead(valid_key_count)

\* test_key_path_already_attempted(key_path)
DDupCheck ==
  /\ pc = "d_dupcheck"
  /\ steps' = Append(steps, "duplicate")
  /\ IF test_key_path_already_attempted(key_path, attempted_keys)
       THEN Rejected(AlreadyMessage(key_path, attempted_keys))
       ELSE /\ pc' = "d_extract"
            /\ UNCHANGED <<error, localVars, collector, handler>>
  /\ UNCHANGED <<encVars, envVars, dirVars, cfgVars, quorumVars, invoked, requested,
                 input, outVars>>

\* get_secret_key_from_file(key_path): read the file, check the format.
DExtract ==
  /\ pc = "d_extract"
  /\ \/ \* Path(key_path).read_text raises
        /\ key_path \in IOErrorPaths
        /\ steps' = Append(steps, "read failed")
        /\ attempted_keys' = Record(attempted_keys, key_path, FALSE)
        /\ Rejected("Error reading key file")
     \/ LET r == get_secret_key_from_file(KeyFileContent(key_path))
        IN  /\ steps' = Append(steps, "format")
            /\ IF ~r.ok
                 THEN /\ attempted_keys' = Record(attempted_keys, key_path, FALSE)
                      /\ Rejected(r.err)
                 ELSE /\ secret_key' = r.secret
                      /\ pc' = "d_validate"
                      /\ UNCHANGED <<attempted_keys, error, key_path, public_key,
                                     collector, handler>>
  /\ UNCHANGED <<encVars, envVars, dirVars, cfgVars, key_secrets, valid_key_count,
                 current_key_number, current_step, invoked, requested, input,
                 outVars>>

\* get_public_key_from_secret(secret_key), test_key_usage_for_file(public_key)
DValidate ==
  /\ pc = "d_validate"
  /\ invoked' = invoked \cup {Invocation("age-keygen", <<secret_key>>)}
  /\ \E t \in KeygenDerive(secret_key) :
       LET r == get_public_key_from_secret(t)
       IN  IF ~r.ok
             THEN /\ steps' = Append(steps, "derivation")
                  /\ attempted_keys' = Record(attempted_keys, key_path, FALSE)
                  /\ Rejected(r.err)
           ELSE IF test_key_usage_for_file(r.public_key, valid_public_keys)
             THEN /\ steps' = steps \o <<"derivation", "membership">>
                  /\ attempted_keys' = Record(attempted_keys, key_path, FALSE)
                  /\ Rejected("This key was not one of the keys used to encrypt the file.")
           ELSE /\ steps' = steps \o <<"derivation", "membership">>
                /\ public_key' = r.public_key
                /\ pc' = "d_commit"
                /\ UNCHANGED <<attempted_keys, error, key_path, secret_key,
                               collector, handler>>
  /\ UNCHANGED <<encVars, envVars, dirVars, cfgVars, key_secrets, valid_key_count,
                 current_key_number, current_step, requested, input, outVars>>

\* A faulty variant of the next definition: key_secrets.insert(0, secret_key).
key_secrets_insert(collected, secret) == <<secret>> \o collected

\* A faulty variant of the next definition: a secret that is already
\* collected is not collected again.
key_secrets_add(collected, secret) ==
  IF secret \in Range(collected) THEN collected ELSE Append(collected, secret)

\* self.key_secrets.append(secret_key)
key_secrets_append(collected, secret) == Append(collected, secret)

\* "Key accepted": the rest of the loop body.
DCommit ==
  /\ pc = "d_commit"
  /\ steps' = Append(steps, "commit")
  /\ key_secrets' = key_secrets_append(key_secrets, secret_key)
  /\ valid_key_count' = valid_key_count + 1
  /\ current_key_number' =
       IF required_key_count - (valid_key_count + 1) > 0
         THEN current_key_number + 1 ELSE current_key_number
  /\ attempted_keys' = Record(attempted_keys, key_path, TRUE)
  /\ current_step' = current_step + 1
  /\ error' = ""
  /\ key_path' = None
  /\ secret_key' = None
  /\ public_key' = None
  /\ LoopHead(valid_key_count + 1)
  /\ UNCHANGED <<encVars, envVars, dirVars, cfgVars, invoked, requested, input, outVars>>


\* A faulty variant of the next definition: the identity file is written
\* before the exit code is looked at.
DCombine_WriteFirst ==
  /\ pc = "d_combine"
  /\ current_step' = current_step + 1
  /\ invoked' = invoked \cup {Invocation("age-plugin-sss", key_secrets)}
  /\ \/ \* the tool prints nothing
        /\ tempFiles' = tempFiles \cup {"decryption_secrets.yaml"}
        /\ Raise("DecryptionError", "Failed to generate combined identity from keys.")
     \/ \* the tool prints something and exits nonzero
        /\ tempFiles' = tempFiles \cup {"decryption_secrets.yaml", "shamir_identity.yaml"}
        /\ Raise("DecryptionError", "Error generating Shamir identity")
     \/ /\ tempFiles' = tempFiles \cup {"decryption_secrets.yaml", "shamir_identity.yaml"}
        /\ pc' = "d_cipher"
        /\ UNCHANGED <<handler, error>>
  /\ UNCHANGED <<encVars, envVars, temp_dir, tempExists, rmtreeCalls, cfgVars,
                 attempted_keys, key_secrets, valid_key_count,
                 current_key_number, localVars, collector, steps, requested,
                 input, outVars>>

\* The banner "Send For Decryption" and get_shamir_identity(self.key_secrets):
\* the secrets are written to decryption_secrets.yaml in the working
\* directory and age-plugin-sss --generate-identity runs on it.
DCombine ==
  /\ pc = "d_combine"
  /\ current_step' = current_step + 1
  /\ invoked' = invoked \cup {Invocation("age-plugin-sss", key_secrets)}
  /\ \/ \* the tool prints nothing
        /\ tempFiles' = tempFiles \cup {"decryption_secrets.yaml"}
        /\ Raise("DecryptionError", "Failed to generate combined identity from keys.")
     \/ \* the tool prints something and exits nonzero
        /\ tempFiles' = tempFiles \cup {"decryption_secrets.yaml"}
        /\ Raise("DecryptionError", "Error generating Shamir identity")
     \/ /\ tempFiles' = tempFiles \cup {"decryption_secrets.yaml", "shamir_identity.yaml"}
        /\ pc' = "d_cipher"
        /\ UNCHANGED <<handler, error>>
  /\ UNCHANGED <<encVars, envVars, temp_dir, tempExists, rmtreeCalls, cfgVars,
                 attempted_keys, key_secrets, valid_key_count,
                 current_key_number, localVars, collector, steps, requested,
                 input, outVars>>

\* save_decrypted_file: the output path on the Desktop is chosen, then
\* age -d -i <identity> -o <output> <encrypted file>.  The tool may have
\* created the output file before it fails.
DCipher ==
  /\ pc = "d_cipher"
  /\ output_path' = unique_output_path("decrypt", ".txt", 0, outDir)
  /\ invoked' = invoked \cup {Invocation("age", <<"-d", "shamir_identity.yaml">>)}
  /\ \/ \* "no identity matched any of the recipients": the output is unlinked
        /\ output' = "none"
        /\ outDir' = outDir \ {output_path'}
        /\ Raise("DecryptionError", "Decryption failed. No valid identity was found")
     \/ \* any other nonzero exit
        /\ output' \in {"none", "partial"}
        /\ outDir' = IF output' = "partial" THEN outDir \cup {output_path'} ELSE outDir
        /\ Raise("DecryptionError", "Error decrypting file")
     \/ /\ output' = "written"
        /\ outDir' = outDir \cup {output_path'}
        /\ pc' = "d_view"
        /\ UNCHANGED <<handler, error>>
  /\ UNCHANGED <<encVars, envVars, dirVars, cfgVars, quorumVars, localVars, collector,
                 steps, requested, input>>

\* "Would you like to open the file now? (y/n)"; a failure to open the file
\* is caught and printed.  The try block of run() ends here.
DView ==
  /\ pc = "d_view"
  /\ \/ /\ input' \in Answers
        /\ pc' = "teardown"
        /\ UNCHANGED <<handler, error>>
     \/ /\ input' = "^C"
        /\ Raise("KeyboardInterrupt", "Operation cancelled by user")
     \/ /\ input' = "EOF"
        /\ Raise("Exception", "Unexpected error")
  /\ UNCHANGED <<encVars, envVars, dirVars, cfgVars, quorumVars, localVars, collector,
                 steps, invoked, requested, outVars>>

\* ------------------------------------------------- both scripts: finally
\* A faulty variant of cleanup_temp_files: the cleanup as the last statement
\* of the try block instead of the finally block.
cleanup_temp_files_OnSuccessOnly ==
  IF temp_dir # None /\ tempExists /\ handler = "none"
    THEN /\ rmtreeCalls' = rmtreeCalls + 1
         /\ tempExists' = FALSE
         /\ tempFiles' = {}
         /\ UNCHANGED temp_dir
    ELSE UNCHANGED dirVars

\* cleanup_temp_files: shutil.rmtree(self.temp_dir, ignore_errors=True) when
\* the directory is set and exists.  The removal of a directory the session
\* itself filled is taken to succeed.
cleanup_temp_files ==
  IF temp_dir # None /\ tempExists
    THEN /\ rmtreeCalls' = rmtreeCalls + 1
         /\ tempExists' = FALSE
         /\ tempFiles' = {}
         /\ UNCHANGED temp_dir
    ELSE UNCHANGED dirVars

\* The finally block of run(): cleanup, then "Press Enter to exit...".
Teardown ==
  /\ pc = "teardown"
  /\ cleanup_temp_files
  /\ pc' = "exit_prompt"
  /\ UNCHANGED <<encVars, envVars, cfgVars, quorumVars, localVars, collector, steps,
                 invoked, requested, error, handler, input, outVars>>

\* input() of the finally block; whatever it returns or raises, run() ends.
ExitPrompt ==
  /\ pc = "exit_prompt"
  /\ input' \in Keys
  /\ pc' = "exit"
  /\ UNCHANGED <<encVars, envVars, dirVars, cfgVars, quorumVars, localVars, collector,
                 steps, invoked, requested, error, handler, outVars>>

\* ------------------------------------------------------------ encrypt.py
\* get_numeric_input(..., 1, 10) of handle_new_key_generation.
MaxKeys == 10

\* Numbers the user types at the numeric prompts: 0..MaxTyped, and the first
\* number past the limit.
MaxTyped == 3

TypedNumbers == 0..MaxTyped \cup {MaxKeys + 1}

\* Names the user types for a key; "" takes the default name.
TypedNames == {"", "Bob", "Key2"}

\* The default name of key i: f"Key{i}".
DefaultName(i) ==
  <<"Key1", "Key2", "Key3", "Key4", "Key5", "Key6", "Key7", "Key8", "Key9", "Key10">>[i]

\* Files the user can pick to encrypt, and Path(file_path).suffix.
SourceFiles == {"doc.txt", "old.age"}

\* A faulty variant of the next definition: the extension is not looked at.
Suffix_Ignored(f) == ".txt"

\* Path(file_path).suffix
Suffix(f) == IF f = "old.age" THEN ".age" ELSE ".txt"

\* A faulty variant of the next definition: `overwrite != 'n'`.
StartsWithY_NotN(answer) == StripLower(answer) # "n"

\* answer.strip().lower().startswith('y')
StartsWithY(answer) == StripLower(answer) \in {"y", "yes", "yep"}

\* The policy artifact an encrypt session can find in the encrypted folder.
ExistingPolicies == {DefaultPolicy, BlankConfig}

\* DigitalLegacyEncryptor.__init__
InitEncrypt ==
  /\ flow = "encrypt"
  /\ pc = "e_setup"
  /\ fs \in Folders
  /\ IF fs.nYaml = 0 THEN policy = <<>> ELSE policy \in ExistingPolicies
  /\ outDir \in {l \in OutputListings("encrypt", ".txt") : Cardinality(l) <= fs.nAge}
  /\ current_step = 1
  /\ total_steps = 5
  /\ InitCommon

decVars == <<required_key_count, total_shares, valid_public_keys, attempted_keys,
             key_secrets, valid_key_count, current_key_number, key_path,
             secret_key, public_key, collector, steps, requested>>

\* set_up_paths_and_validation, set_up_temp_directory, prepare_environment.
\* Without a *.yaml in the encrypted folder a blank recipients.yaml is
\* written first; open() raises when the folder itself does not exist.
ESetup ==
  /\ pc = "e_setup"
  /\ IF fs.nYaml = 0 /\ ~fs.dirExists
       THEN /\ Raise("Exception", "Unexpected error")
            /\ UNCHANGED <<fs, policy, dirVars>>
       ELSE /\ fs' = IF fs.nYaml = 0 THEN [fs EXCEPT !.nYaml = 1] ELSE fs
            /\ policy' = IF fs.nYaml = 0 THEN BlankConfig ELSE policy
            /\ IF fs.missing # {} \/ fs.nYaml > 1
                 THEN /\ Raise("EncryptionError", "Missing required files")
                      /\ UNCHANGED dirVars
                 ELSE \/ /\ temp_dir' = "tmp"
                         /\ tempExists' = TRUE
                         /\ pc' = "e_welcome"
                         /\ UNCHANGED <<tempFiles, rmtreeCalls, handler, error>>
                      \/ \* tempfile.mkdtemp raises OSError
                         /\ Raise("Exception", "Unexpected error")
                         /\ UNCHANGED dirVars
  /\ UNCHANGED <<flow, decVars, encVars, current_step, total_steps, invoked,
                 input, outVars>>

\* show_welcome_message: "Press Enter to begin...", then self.current_step = 2.
EWelcome ==
  /\ pc = "e_welcome"
  /\ \E k \in Keys :
       /\ input' = k
       /\ CASE k = "^C" -> /\ Raise("KeyboardInterrupt", "Operation cancelled by user")
                           /\ UNCHANGED current_step
            [] k = "EOF" -> /\ Raise("Exception", "Unexpected error")
                            /\ UNCHANGED current_step
            [] OTHER -> /\ current_step' = 2
                        /\ pc' = "e_source"
                        /\ UNCHANGED <<handler, error>>
  /\ UNCHANGED <<envVars, dirVars, decVars, encVars, total_steps, invoked, outVars>>

\* get_source_file; on success get_key_configuration starts: it increments
\* self.current_step and shows the two choices.
ESource ==
  /\ pc = "e_source"
  /\ \/ /\ input' = "^C"
        /\ Raise("KeyboardInterrupt", "Operation cancelled by user")
        /\ UNCHANGED <<source_file, current_step>>
     \/ \* end of input, or tk.Tk() fails
        /\ input' \in {"EOF", "no display"}
        /\ Raise("EncryptionError", "File selection failed")
        /\ UNCHANGED <<source_file, current_step>>
     \/ \* the dialog is closed without a file
        /\ input' = "line"
        /\ Raise("EncryptionError", "No file selected")
        /\ UNCHANGED <<source_file, current_step>>
     \/ \E f \in SourceFiles :
          /\ input' = "line"
          /\ IF Suffix(f) = ".age"
               THEN /\ Raise("EncryptionError", "File selection failed: File already encrypted")
                    /\ UNCHANGED <<source_file, current_step>>
               ELSE /\ source_file' = f
                    /\ current_step' = current_step + 1
                    /\ pc' = "e_choice"
                    /\ UNCHANGED <<handler, error>>
  /\ UNCHANGED <<envVars, dirVars, decVars, key_choice, num_identities,
                 threshold, key_names, public_keys, keysDir, total_steps,
                 invoked, outVars>>

\* The loop of get_key_configuration: "Enter your choice (1 or 2)".
EChoice ==
  /\ pc = "e_choice"
  /\ \/ /\ input' = "^C"
        /\ Raise("KeyboardInterrupt", "Operation cancelled by user")
        /\ UNCHANGED key_choice
     \/ /\ input' = "EOF"
        /\ Raise("Exception", "Unexpected error")
        /\ UNCHANGED key_choice
     \/ \E c \in {"1", "2", "3", ""} :
          /\ input' = "line"
          /\ IF c \in {"1", "2"}
               THEN /\ key_choice' = c
                    /\ pc' = IF c = "1" THEN "e_num" ELSE "e_existing"
                    /\ UNCHANGED <<handler, error>>
               ELSE /\ error' = "Invalid choice. Please enter 1 or 2."
                    /\ UNCHANGED <<pc, handler, key_choice>>
  /\ UNCHANGED <<envVars, dirVars, decVars, source_file, num_identities,
                 threshold, key_names, public_keys, keysDir, current_step,
                 total_steps, invoked, outVars>>

\* A faulty variant of the next definition: the upper limit is not tested.
get_numeric_input_NoUpper(digits, value, min_val, max_val) ==
  IF digits /\ min_val <= value THEN value ELSE -1

\* get_numeric_input(prompt, min_val, max_val): the value it returns for what
\* is typed, or -1 when the loop asks again.  digits: user_input.isdigit().
get_numeric_input(digits, value, min_val, max_val) ==
  IF digits /\ min_val <= value /\ value <= max_val THEN value ELSE -1

\* One round of the loop of get_numeric_input at the prompt `at`; an accepted
\* value is assigned and control goes on to `next`.  The except clause of the
\* loop catches KeyboardInterrupt together with ValueError and asks again.
NumericPrompt(at, min_val, max_val, next) ==
  /\ pc = at
  /\ \/ /\ input' = "^C"
        /\ error' = "Please enter a valid number."
        /\ UNCHANGED <<pc, handler, num_identities, threshold>>
     \/ /\ input' = "EOF"
        /\ Raise("Exception", "Unexpected error")
        /\ UNCHANGED <<num_identities, threshold>>
     \/ \E digits \in BOOLEAN, value \in TypedNumbers :
          /\ input' = "line"
          /\ IF get_numeric_input(digits, value, min_val, max_val) < 0
               THEN /\ error' = "Please enter a valid number."
                    /\ UNCHANGED <<pc, handler, num_identities, threshold>>
               ELSE /\ IF at = "e_num"
                         THEN num_identities' = value /\ UNCHANGED threshold
                         ELSE threshold' = value /\ UNCHANGED num_identities
                    /\ pc' = next
                    /\ UNCHANGED <<handler, error>>
  /\ UNCHANGED <<envVars, dirVars, decVars, source_file, key_choice, key_names,
                 public_keys, keysDir, current_step, total_steps, invoked,
                 outVars>>

\* handle_new_key_generation: "How many key files would you like to generate?"
ENum == NumericPrompt("e_num", 1, MaxKeys, "e_thr")

\* handle_new_key_generation: "How many keys should be required to decrypt?"
EThr == NumericPrompt("e_thr", 1, num_identities, "e_name")

\* handle_new_key_generation: "Enter name for key i", one prompt per key.
EName ==
  /\ pc = "e_name"
  /\ \/ /\ input' = "^C"
        /\ Raise("KeyboardInterrupt", "Operation cancelled by user")
        /\ UNCHANGED key_names
     \/ /\ input' = "EOF"
        /\ Raise("Exception", "Unexpected error")
        /\ UNCHANGED key_names
     \/ \E name \in TypedNames :
          /\ input' = "line"
          /\ key_names' = Append(key_names,
                                 IF name = "" THEN DefaultName(Len(key_names) + 1) ELSE name)
          /\ pc' = IF Len(key_names) + 1 = num_identities THEN "e_generate" ELSE "e_name"
          /\ UNCHANGED <<handler, error>>
  /\ UNCHANGED <<envVars, dirVars, decVars, source_file, key_choice,
                 num_identities, threshold, public_keys, keysDir, current_step,
                 total_steps, invoked, outVars>>

\* save_key_file: "Key for Digital Legacy - <name>.yaml" is written, or
\* written over.
save_key_file(dir, key_name, secret) ==
  [f \in DOMAIN dir \cup {key_name} |-> IF f = key_name THEN secret ELSE dir[f]]

\* One round of the generation loop: generate_age_key, save_key_file, append
\* the public key.
EGenerate ==
  /\ pc = "e_generate"
  /\ invoked' = invoked \cup {Invocation("age-keygen", <<>>)}
  /\ LET i == Len(public_keys) + 1
     IN  \/ \* the tool exits nonzero, or its output holds no key
            /\ Raise("EncryptionError", "Error generating age key")
            /\ UNCHANGED <<public_keys, keysDir>>
         \/ /\ keysDir' = save_key_file(keysDir, key_names[i], GeneratedSecret(i))
            /\ public_keys' = Append(public_keys, GeneratedPublic(i))
            /\ pc' = IF i = num_identities THEN "e_config" ELSE "e_generate"
            /\ UNCHANGED <<handler, error>>
  /\ UNCHANGED <<envVars, dirVars, decVars, source_file, key_choice,
                 num_identities, threshold, key_names, current_step,
                 total_steps, input, outVars>>

\* generate_key_config(threshold, public_keys, self.recipients_config_path):
\* the file exists since setup, so the overwrite question is asked.
EConfig ==
  /\ pc = "e_config"
  /\ \/ /\ input' = "^C"
        /\ Raise("KeyboardInterrupt", "Operation cancelled by user")
        /\ UNCHANGED policy
     \/ /\ input' = "EOF"
        /\ Raise("Exception", "Unexpected error")
        /\ UNCHANGED policy
     \/ \E a \in Answers :
          /\ input' = a
          /\ IF StartsWithY(a)
               THEN /\ policy' = generate_key_config(threshold, public_keys)
                    /\ pc' = "e_recipient"
                    /\ UNCHANGED <<handler, error>>
               ELSE /\ Raise("EncryptionError", "File overwrite cancelled")
                    /\ UNCHANGED policy
  /\ UNCHANGED <<flow, fs, dirVars, decVars, encVars, current_step, total_steps,
                 invoked, outVars>>

\* handle_existing_keys: "Would you like to open the key configuration file
\* to make changes? (y/n)".
EExisting ==
  /\ pc = "e_existing"
  /\ \/ \* recipients.yaml is gone since setup saw it
        /\ Raise("EncryptionError", "recipients.yaml not found")
        /\ UNCHANGED input
     \/ /\ input' = "^C"
        /\ Raise("KeyboardInterrupt", "Operation cancelled by user")
     \/ /\ input' = "EOF"
        /\ Raise("Exception", "Unexpected error")
     \/ \E a \in Answers :
          /\ input' = a
          /\ pc' = IF StartsWithY(a) THEN "e_edit" ELSE "e_recipient"
          /\ UNCHANGED <<handler, error>>
  /\ UNCHANGED <<envVars, dirVars, decVars, encVars, current_step, total_steps,
                 invoked, outVars>>

\* handle_existing_keys: the file is opened in an editor and the user
\* confirms with Enter; the file holds whatever was saved.
EEdit ==
  /\ pc = "e_edit"
  /\ \/ /\ input' = "^C"
        /\ Raise("KeyboardInterrupt", "Operation cancelled by user")
     \/ /\ input' = "EOF"
        /\ Raise("Exception", "Unexpected error")
     \/ /\ input' = "line"
        /\ pc' = "e_recipient"
        /\ UNCHANGED <<handler, error>>
  /\ policy' \in ExistingPolicies \cup {policy}
  /\ UNCHANGED <<flow, fs, dirVars, decVars, encVars, current_step, total_steps,
                 invoked, outVars>>

\* Step 4: generate_sss_recipient(recipients_config_path):
\* age-plugin-sss --generate-recipient on the policy artifact.
ERecipient ==
  /\ pc = "e_recipient"
  /\ current_step' = current_step + 1
  /\ \/ \* the policy artifact is gone
        /\ Raise("EncryptionError", "Key configuration file not found")
        /\ UNCHANGED invoked
     \/ /\ invoked' = invoked \cup {Invocation("age-plugin-sss", <<"--generate-recipient">>)}
        /\ \/ Raise("EncryptionError", "Error generating SSS recipient")
           \/ Raise("EncryptionError", "Generated recipient is empty")
           \/ /\ pc' = "e_encrypt"
              /\ UNCHANGED <<handler, error>>
  /\ UNCHANGED <<envVars, dirVars, decVars, encVars, total_steps, input, outVars>>

\* Step 5: encrypt_file(self.source_file, sss_recipient): the output path
\* in the encrypted folder is chosen, then age -e -r <recipient> -o <output>
\* <source>, then the closing banner.  The tool may have created the output
\* file before it fails.
EEncrypt ==
  /\ pc = "e_encrypt"
  /\ output_path' = unique_output_path("encrypt", Suffix(source_file), 0, outDir)
  /\ invoked' = invoked \cup {Invocation("age", <<"-e", source_file>>)}
  /\ \/ /\ output' \in {"none", "partial"}
        /\ current_step' = current_step + 1
        /\ fs' = IF output' = "partial" THEN [fs EXCEPT !.nAge = fs.nAge + 1] ELSE fs
        /\ outDir' = IF output' = "partial" THEN outDir \cup {output_path'} ELSE outDir
        /\ Raise("EncryptionError", "Encryption failed")
     \/ /\ output' = "written"
        /\ current_step' = current_step + 2
        /\ fs' = [fs EXCEPT !.nAge = fs.nAge + 1]
        /\ outDir' = outDir \cup {output_path'}
        /\ pc' = "teardown"
        /\ UNCHANGED <<handler, error>>
  /\ UNCHANGED <<flow, policy, dirVars, decVars, encVars, total_steps, input>>

NextEncrypt ==
  \/ ESetup \/ EWelcome \/ ESource \/ EChoice \/ ENum \/ EThr \/ EName
  \/ EGenerate \/ EConfig \/ EExisting \/ EEdit \/ ERecipient \/ EEncrypt

NextDecrypt ==
  \/ DSetup \/ DLoad \/ DBegin \/ DResolve \/ DRetry \/ DDupCheck \/ DExtract
  \/ DValidate \/ DCommit \/ DCombine \/ DCipher \/ DView

Init == InitDecrypt \/ InitEncrypt

Next == NextDecrypt \/ NextEncrypt \/ Teardown \/ ExitPrompt

Spec == Init /\ [][Next]_vars

\* decrypt.py is started in the folders an encrypt session has left after it
\* generated keys and wrote the ciphertext: DigitalLegacyDecryptor.__init__
\* on the files as they are.  The variables of encrypt.py keep the values of
\* the session that wrote the files.
DLaunch ==
  /\ flow = "encrypt"
  /\ pc = "exit"
  /\ handler = "none"
  /\ output = "written"
  /\ key_choice = "1"
  /\ flow' = "decrypt"
  /\ pc' = "d_setup"
  /\ temp_dir' = None
  /\ tempExists' = FALSE
  /\ tempFiles' = {}
  /\ rmtreeCalls' = 0
  /\ current_step' = 0
  /\ total_steps' = 0
  /\ invoked' = {}
  /\ error' = ""
  /\ input' = ""
  /\ output' = "none"
  /\ output_path' = NoPath
  /\ outDir' = {}
  /\ UNCHANGED <<fs, policy, decVars, encVars, handler>>

\* An encrypt session in a folder without ciphertext, followed by a decrypt
\* session on what it wrote.
InitRoundTrip == InitEncrypt /\ fs.nAge = 0 /\ fs.missing = {}

NextRoundTrip == NextEncrypt \/ Teardown \/ ExitPrompt \/ DLaunch \/ NextDecrypt

RoundTripSpec == InitRoundTrip /\ [][NextRoundTrip]_vars


\* ------------------------------------------------------------ properties
\* Paths recorded as accepted in the ledger.
AcceptedPaths == {p \in DOMAIN attempted_keys : attempted_keys[p]}

DeclinedPaths == {p \in DOMAIN attempted_keys : ~attempted_keys[p]}

\* The public identities age-keygen -y derives for a secret (none when it
\* fails or prints something else).
DerivedIdentities(secret) ==
  {t.stdout : t \in {u \in KeygenDerive(secret) :
                       u.returncode = 0 /\ u.stderr = "" /\ u.stdout \in WellFormedPublicKeys}}

\* The file at path p passes the format, derivation and membership checks.
PassesValidation(p) ==
  /\ \E i \in DOMAIN KeyFiles[p] : KeyFiles[p][i].k = "secret"
  /\ \E i \in DOMAIN KeyFiles[p] :
       /\ KeyFiles[p][i].k = "secret"
       /\ DerivedIdentities(KeyFiles[p][i].id) # {}
       /\ DerivedIdentities(KeyFiles[p][i].id) \subseteq Range(valid_public_keys)

\* The positions of decrypt's run() after the policy has been loaded.
CollectionPcs == {"d_begin", "d_resolve", "d_retry", "d_dupcheck", "d_extract",
                  "d_validate", "d_commit", "d_combine", "d_cipher", "d_view"}

EndPcs == {"teardown", "exit_prompt", "exit"}

\* C1: for a valid policy (1 <= threshold <= number of identities) the
\* collector is Complete exactly when the number of distinct paths accepted
\* equals the threshold; every accepted path passes all validation steps, the
\* collected secrets are one per accepted path, and with fewer accepted paths
\* (in particular after rejections only) the collector is not Complete.
C1_CompleteIffQuorum ==
  (flow = "decrypt" /\ 1 <= required_key_count
     /\ required_key_count <= Len(valid_public_keys))
  => /\ collector = "Complete" <=> Cardinality(AcceptedPaths) = required_key_count
     /\ Cardinality(AcceptedPaths) <= required_key_count
     /\ \A p \in AcceptedPaths : PassesValidation(p)
     /\ Len(key_secrets) = Cardinality(AcceptedPaths)
     /\ valid_key_count = Cardinality(AcceptedPaths)

\* C1 witness: a threshold of 2 met after rejections.
C1_Witness ==
  /\ flow = "decrypt"
  /\ collector = "Complete"
  /\ required_key_count = 2
  /\ Len(valid_public_keys) = 3
  /\ Cardinality(AcceptedPaths) = 2
  /\ DeclinedPaths # {}

\* Every collected secret derives to an identity of the policy.
C2_CollectedAuthorized ==
  flow = "decrypt" =>
    \A i \in DOMAIN key_secrets :
      /\ DerivedIdentities(key_secrets[i]) # {}
      /\ DerivedIdentities(key_secrets[i]) \subseteq Range(valid_public_keys)

\* The validation step of a candidate whose derived identity is well-formed
\* but not in the policy.
C2_UnauthorizedRejected ==
  (/\ pc = "d_validate"
   /\ DerivedIdentities(secret_key) # {}
   /\ DerivedIdentities(secret_key) \cap Range(valid_public_keys) = {})
  => /\ pc' = "d_resolve"
     /\ collector' = "Idle"
     /\ steps' = <<"resolve", "duplicate", "format", "derivation", "membership">>
     /\ error' = "This key was not one of the keys used to encrypt the file."
     /\ key_path \in DOMAIN attempted_keys'
     /\ ~attempted_keys'[key_path]
     /\ key_secrets' = key_secrets
     /\ valid_key_count' = valid_key_count

\* C2: every collected secret derives to an identity of the policy, and a
\* candidate whose derived identity is well-formed but not in the policy is
\* rejected at the membership step: it is recorded declined, and the
\* collected list and the accepted count stay as they were.
C2_MembershipGate == []C2_CollectedAuthorized /\ [][C2_UnauthorizedRejected]_vars

\* C2 witness: the key of an identity outside the policy has been declined
\* at the membership step while an authorized key is already collected.
C2_Witness ==
  /\ flow = "decrypt"
  /\ "kX" \in DeclinedPaths
  /\ error = "This key was not one of the keys used to encrypt the file."
  /\ Len(key_secrets) = 1
  /\ pc = "d_resolve"

\* The duplicate check of a path that is already in the ledger.
C3_DuplicateStep ==
  (pc = "d_dupcheck" /\ key_path \in DOMAIN attempted_keys)
  => /\ error' = (IF attempted_keys[key_path] THEN "already accepted" ELSE "already declined")
     /\ pc' = "d_resolve"
     /\ collector' = "Idle"
     /\ steps' = <<"resolve", "duplicate">>
     /\ attempted_keys' = attempted_keys
     /\ key_secrets' = key_secrets
     /\ valid_key_count' = valid_key_count
     /\ invoked' = invoked

\* C3: a path that is already in the ledger, accepted or declined, is
\* rejected as already judged with its prior outcome reported; the collected
\* list, the count and the ledger stay as they were, the file is not read and
\* no tool is invoked.
C3_DuplicateRejected == [][C3_DuplicateStep]_vars

\* C3 witness: a declined path has been submitted again and rejected, with
\* one key collected.
C3_Witness ==
  /\ flow = "decrypt"
  /\ error = "already declined"
  /\ steps = <<"resolve", "duplicate">>
  /\ AcceptedPaths # {}
  /\ pc = "d_resolve"


\* C4: in both scripts, once the scoped working directory has been created,
\* the removal has not run before the finally block, and after it the removal
\* has run exactly once and the directory is gone, whichever way the session
\* ended (normal completion, an error, Ctrl-C).
C4_TeardownOnce ==
  temp_dir # None =>
    IF pc \in {"exit_prompt", "exit"}
      THEN rmtreeCalls = 1 /\ ~tempExists /\ tempFiles = {}
      ELSE rmtreeCalls = 0 /\ tempExists

\* C4 witness: an encrypt session interrupted by Ctrl-C after the directory
\* was created has ended with the directory removed.
C4_Witness ==
  /\ flow = "encrypt"
  /\ pc = "exit"
  /\ handler = "KeyboardInterrupt"
  /\ temp_dir # None
  /\ rmtreeCalls = 1
  /\ ~tempExists

\* The positions of run() where input() waits for the user, before the
\* finally block.
PromptPcs == {"d_begin", "d_resolve", "d_retry", "d_view", "e_welcome",
              "e_source", "e_choice", "e_num", "e_thr", "e_name", "e_config",
              "e_existing", "e_edit"}

\* A step in which Ctrl-C is pressed at a prompt.
C5_InterruptStep ==
  (pc \in PromptPcs /\ input' = "^C")
  => /\ pc' = "teardown"
     /\ handler' = "KeyboardInterrupt"
     /\ invoked' = invoked

\* C5: Ctrl-C at any prompt of either session ends it: the next position is
\* the finally block, and no tool is invoked on the way.
C5_InterruptEndsSession == [][C5_InterruptStep]_vars

\* The policy artifact is malformed in the sense of the load contract: no
\* threshold or identity list can be located, the threshold is not positive,
\* or the identity list is empty.
PolicyMalformed(content) ==
  \/ ~get_recipient_config(content).ok
  \/ get_recipient_config(content).threshold <= 0
  \/ get_recipient_config(content).total_shares = 0

\* C6: a decrypt session whose policy artifact is malformed fails when the
\* policy is loaded: it never gets past the load, no candidate is requested
\* and neither age-plugin-sss nor age is invoked.
C6_MalformedPolicyAborts ==
  (flow = "decrypt" /\ ~SetupProblems(fs) /\ PolicyMalformed(policy))
  => /\ pc \in {"d_setup", "d_load"} \cup EndPcs
     /\ ~requested
     /\ invoked = {}
     /\ pc \in EndPcs => handler \in {"DecryptionError", "Exception"}

\* C7: a policy that the load accepts has at least one identity and a
\* threshold no larger than the number of identities.
C7_ThresholdWithinIdentities ==
  (flow = "decrypt" /\ pc \in CollectionPcs)
  => /\ Len(valid_public_keys) >= 1
     /\ required_key_count <= Len(valid_public_keys)

\* C8: a decrypt session that finds a tool binary missing, or not exactly one
\* ciphertext, or not exactly one policy artifact, fails at setup: the
\* working directory is never created, no candidate is requested and no tool
\* is invoked.
C8_SetupFailureIsFatal ==
  (flow = "decrypt" /\ (fs.missing # {} \/ fs.nAge # 1 \/ fs.nYaml # 1))
  => /\ pc \in {"d_setup"} \cup EndPcs
     /\ pc \in EndPcs => handler = "DecryptionError"
     /\ temp_dir = None
     /\ ~tempExists
     /\ rmtreeCalls = 0
     /\ ~requested
     /\ invoked = {}
     /\ collector = "NotStarted"

\* C8 witness: a session that found two policy artifacts has ended.
C8_Witness ==
  /\ flow = "decrypt"
  /\ fs.missing = {}
  /\ fs.nAge = 1
  /\ fs.nYaml = 2
  /\ pc = "exit"
  /\ error = "Missing required files"

\* A step keeps every entry of the ledger.
C9_LedgerStep ==
  \A p \in DOMAIN attempted_keys :
    p \in DOMAIN attempted_keys' /\ attempted_keys'[p] = attempted_keys[p]

\* C9: the ledger only grows: no step removes a path from it or changes the
\* outcome recorded for a path.
C9_LedgerMonotonic == [][C9_LedgerStep]_vars

\* C9 witness: the ledger holds an accepted and a declined path, and the
\* path whose read failed has been submitted again.
C9_Witness ==
  /\ flow = "decrypt"
  /\ AcceptedPaths # {}
  /\ "kA2" \in DeclinedPaths
  /\ error = "already declined"

\* A step in which the retry question is answered with anything but yes.
C10_DeclineStep ==
  (pc = "d_retry" /\ input' \in Answers /\ StripLower(input') \notin {"y", "yes"})
  => pc' = "teardown" /\ invoked' = invoked

\* C10: when no key file could be chosen and the user answers the retry
\* question with anything but yes, the collection loop ends and the session
\* goes to its finally block: no further candidate is requested and
\* neither age-plugin-sss nor age is invoked.
C10_DeclinedRetryEndsSession == [][C10_DeclineStep]_vars

\* A step in which reading the candidate file fails.
C11_ReadFailureStep ==
  (pc = "d_extract" /\ steps' = Append(steps, "read failed"))
  => attempted_keys' = attempted_keys

\* C11: a failure to read the candidate file, before any content is
\* examined, leaves the ledger as it was, so that the same path can be
\* submitted again and be validated afresh.
C11_ReadFailureNotRecorded == [][C11_ReadFailureStep]_vars

\* A step changes the collected list only by the commit of a validated
\* candidate, which appends that candidate's secret at the end; a step that
\* ends a candidate's pipeline in any other way leaves the list as it was.
C12_CollectedStep ==
  /\ key_secrets' # key_secrets
       => /\ pc = "d_commit"
          /\ steps' = <<"resolve", "duplicate", "format", "derivation", "membership", "commit">>
          /\ Len(key_secrets') = Len(key_secrets) + 1
          /\ key_secrets'[Len(key_secrets')] = secret_key
          /\ \A i \in DOMAIN key_secrets : key_secrets'[i] = key_secrets[i]
  /\ (pc \in {"d_resolve", "d_retry", "d_dupcheck", "d_extract", "d_validate"})
       => key_secrets' = key_secrets

\* C12: the collected list is empty when collection begins and is changed
\* only by the commit of a fully validated candidate, which appends exactly
\* one secret at the end; every rejection leaves it unchanged and no step
\* removes or reorders an element.
C12_CollectedAppendOnly ==
  /\ [](pc \in {"d_setup", "d_load", "d_begin"} => key_secrets = <<>>)
  /\ [][C12_CollectedStep]_vars

\* C12 witness: a second, different secret has been committed after a
\* rejection.
C12_Witness ==
  /\ flow = "decrypt"
  /\ key_secrets = <<"SA", "SB">>
  /\ steps = <<"resolve", "duplicate", "format", "derivation", "membership", "commit">>
  /\ DeclinedPaths # {}

\* The duplicate check of a path that is not in the ledger lets the
\* candidate through, whatever its content; the commit appends the secret
\* and counts it, whether or not the same secret is already collected.
C13_PathOnlyStep ==
  /\ (pc = "d_dupcheck" /\ key_path \notin DOMAIN attempted_keys)
       => pc' = "d_extract" /\ collector' = "Validating"
  /\ pc = "d_commit"
       => /\ key_secrets' = Append(key_secrets, secret_key)
          /\ valid_key_count' = valid_key_count + 1
          /\ attempted_keys' = Record(attempted_keys, key_path, TRUE)

\* C13: the collector deduplicates by source path only: a candidate whose
\* path is new is validated even when its content is a secret that is
\* already collected, and when it is committed it is appended and counted
\* like any other.
C13_DedupByPathOnly == [][C13_PathOnlyStep]_vars

\* C13 witness: a threshold of 2 is met by two paths that hold the same
\* secret, so the collector is Complete with one distinct secret.
C13_Witness ==
  /\ flow = "decrypt"
  /\ required_key_count = 2
  /\ collector = "Complete"
  /\ AcceptedPaths = {"kA", "kA2"}
  /\ key_secrets = <<"SA", "SA">>
  /\ valid_key_count = 2
  /\ Cardinality(Range(key_secrets)) < required_key_count

\* A decrypt step that invokes age-plugin-sss is taken with the quorum
\* reached and passes the collected list as it stands; a step that invokes
\* age is taken after age-plugin-sss has been invoked and its identity has
\* been written.
C14_InvocationStep ==
  flow = "decrypt" =>
    \A v \in invoked' \ invoked :
      /\ v.tool = "age-plugin-sss"
           => /\ pc = "d_combine"
              /\ collector = "Complete"
              /\ Len(key_secrets) = required_key_count
              /\ valid_key_count = required_key_count
              /\ v.arg = key_secrets
      /\ v.tool = "age"
           => /\ pc = "d_cipher"
              /\ Invocation("age-plugin-sss", key_secrets) \in invoked
              /\ "shamir_identity.yaml" \in tempFiles
              /\ handler = "none"

\* C14: in a decrypt session age-plugin-sss is invoked only when the
\* collector is Complete, on exactly the collected secrets in the order of
\* their acceptance, and age is invoked only after the combination has
\* succeeded.
C14_CombineThenCipher == [][C14_InvocationStep]_vars

\* C14 witness: for threshold 2, SA then SB were accepted, the combination
\* ran on <<SA, SB>> and age ran after it.
C14_Witness ==
  /\ flow = "decrypt"
  /\ required_key_count = 2
  /\ key_secrets = <<"SA", "SB">>
  /\ Invocation("age-plugin-sss", <<"SA", "SB">>) \in invoked
  /\ Invocation("age", <<"-d", "shamir_identity.yaml">>) \in invoked

\* The messages with which run() ends after a failed invocation of age.
CipherFailures ==
  {"Decryption failed. No valid identity was found", "Error decrypting file",
   "Encryption failed"}

\* C15: after a failed invocation of age, by encrypt or by decrypt and
\* whatever the kind of failure, no file exists at the output path chosen for
\* that invocation.
C15_NoOutputAfterFailure ==
  (output_path # NoPath /\ error \in CipherFailures) => output_path \notin outDir

\* The names that were taken in the output folder before age was invoked.
PriorListing == IF output_path = NoPath THEN outDir ELSE outDir \ {output_path}

\* The step that chooses the output path chooses a name that is free, and it
\* is the first free one of the first name and the names numbered 1, 2, ...;
\* no step removes a name from the folder or adds another one than the
\* chosen one.
C16_OutputStep ==
  /\ output_path' # output_path
       => /\ pc \in {"d_cipher", "e_encrypt"}
          /\ output_path' \notin outDir
          /\ output_path' # NoPath
          /\ \E n \in 0..Cardinality(outDir) :
               /\ output_path' = output_filename(flow, ".txt", n)
               /\ \A m \in 0..(n - 1) : output_filename(flow, ".txt", m) \in outDir
  /\ outDir \subseteq outDir'
  /\ outDir' \ outDir \subseteq {output_path'}

\* C16: whatever files are already in the output folder, the output path
\* that encrypt or decrypt hands to age names no file that exists when it is
\* chosen: when the first name is taken, a numbered name is used, with the
\* counter increased until the name is free, so no file that was there is
\* overwritten.
C16_OutputPathIsFree == [][C16_OutputStep]_vars

\* C16 witness: the first name and the name numbered 1 were taken, and age
\* has written its output under the name numbered 2.
C16_Witness ==
  /\ output = "written"
  /\ output_path.counter = 2
  /\ Cardinality(PriorListing) = 2
  /\ output_path \in outDir

\* The overwrite question answered with something that does not start with
\* a y.
C17_DeclineStep ==
  (pc = "e_config" /\ input' \in {"n", "no", ""})
  => /\ policy' = policy
     /\ pc' = "teardown"
     /\ handler' = "EncryptionError"
     /\ error' = "File overwrite cancelled"
     /\ invoked' = invoked

\* After the overwrite was declined the policy artifact is the one the
\* session found, and neither age-plugin-sss nor age has been invoked.
C17_AfterDecline ==
  error = "File overwrite cancelled"
  => /\ flow = "encrypt"
     /\ pc \in EndPcs
     /\ policy \in ExistingPolicies
     /\ \A v \in invoked : v.tool \notin {"age-plugin-sss", "age"}
     /\ output = "none"

\* C17: on the encrypt side, when the policy artifact exists and the user
\* does not authorize the overwrite, saving the generated policy fails with
\* "File overwrite cancelled": the content of the existing artifact is
\* unchanged and the session ends without invoking age-plugin-sss or age.
C17_OverwriteDeclined == []C17_AfterDecline /\ [][C17_DeclineStep]_vars

\* C17 witness: keys were generated for a folder that held a policy, the
\* overwrite was declined and the session has ended with that policy.
C17_Witness ==
  /\ flow = "encrypt"
  /\ pc = "exit"
  /\ error = "File overwrite cancelled"
  /\ policy = DefaultPolicy
  /\ Len(public_keys) = 2
  /\ generate_key_config(threshold, public_keys) # policy

\* No session goes on with a source file that has the extension .age, and a
\* session that ended on such a file has generated no key, has not saved a
\* policy and has invoked no tool.
C18_AfterAgeSource ==
  /\ source_file # "old.age"
  /\ error = "File selection failed: File already encrypted"
       => /\ flow = "encrypt"
          /\ pc \in EndPcs
          /\ handler = "EncryptionError"
          /\ source_file = None
          /\ public_keys = <<>>
          /\ DOMAIN keysDir = {}
          /\ policy \in ExistingPolicies
          /\ invoked = {}
          /\ output = "none"

\* The step of the source selection that ends with that error changes
\* neither the policy artifact nor the keys folder and invokes nothing.
C18_AgeSourceStep ==
  (error' = "File selection failed: File already encrypted" /\ error' # error)
  => /\ pc = "e_source"
     /\ policy' = policy
     /\ keysDir' = keysDir
     /\ invoked' = invoked

\* C18: an encrypt session in which the selected source file has the
\* extension .age fails with the already-encrypted error before any key is
\* generated, before the policy is saved and before age-plugin-sss or age is
\* invoked.
C18_AlreadyEncrypted == []C18_AfterAgeSource /\ [][C18_AgeSourceStep]_vars

\* C18 witness: a first-run session has ended on the selection of a .age
\* file.
C18_Witness ==
  /\ flow = "encrypt"
  /\ pc = "exit"
  /\ error = "File selection failed: File already encrypted"
  /\ handler = "EncryptionError"
  /\ policy = BlankConfig

\* C19: once the setup of an encrypt session has run, the encrypted folder
\* holds a policy artifact, whether or not the folder existed: where there
\* was none, setup has written the blank placeholder (threshold unset, two
\* empty identity slots) instead of failing.
C19_BlankPolicyCreated ==
  (flow = "encrypt" /\ pc # "e_setup")
  => /\ fs.nYaml >= 1
     /\ policy # <<>>
     /\ policy = BlankConfig => ~get_recipient_config(policy).ok

\* The finally block in steps: the pause for "Press Enter to exit..." is
\* entered only from the cleanup, which has removed the working directory
\* when there is one, and run() returns only from the pause.
C20_FinallyStep ==
  /\ (pc' = "exit_prompt" /\ pc # "exit_prompt")
       => /\ pc = "teardown"
          /\ ~tempExists'
          /\ tempFiles' = {}
          /\ (temp_dir # None => rmtreeCalls' = 1)
  /\ (pc' = "exit" /\ pc # "exit") => pc = "exit_prompt"
  /\ pc = "teardown" => pc' = "exit_prompt"

\* C20: in both scripts, after success and after every failure or Ctrl-C,
\* the session removes its working directory first and pauses for the user's
\* acknowledgment afterwards: it never ends without having paused and never
\* pauses before the removal has run.
C20_TeardownThenPause ==
  /\ [](pc \in {"exit_prompt", "exit"} => ~tempExists /\ tempFiles = {})
  /\ [][C20_FinallyStep]_vars

\* C20 witness: a decrypt session whose combination failed is at the pause,
\* with the working directory, which held the secrets file, removed.
C20_Witness ==
  /\ flow = "decrypt"
  /\ pc = "exit_prompt"
  /\ handler = "DecryptionError"
  /\ error = "Error generating Shamir identity"
  /\ temp_dir # None
  /\ rmtreeCalls = 1
  /\ ~tempExists

\* The errors of a candidate: duplicate path, unreadable file, invalid
\* format, derivation failure, unauthorized identity.
CandidateErrors ==
  {"already accepted", "already declined", "Error reading key file",
   "Invalid secret key format", "Could not derive a valid age public key",
   "Error validating secret key",
   "Generated public key doesn't match expected format",
   "This key was not one of the keys used to encrypt the file."}

\* A step of the duplicate, extraction or validation stage either hands the
\* candidate to the next stage or rejects it with a candidate error; in both
\* cases the session goes on, and after a rejection the collector is Idle
\* and the next candidate is asked for.
C21_CandidateStep ==
  pc \in {"d_dupcheck", "d_extract", "d_validate"}
  => /\ handler' = "none"
     /\ pc' \notin EndPcs
     /\ rmtreeCalls' = rmtreeCalls
     /\ \/ /\ pc' \in {"d_extract", "d_validate", "d_commit"}
           /\ collector' = "Validating"
           /\ error' = error
        \/ /\ pc' = "d_resolve"
           /\ collector' = "Idle"
           /\ error' \in CandidateErrors
           /\ valid_key_count' = valid_key_count
           /\ valid_key_count < required_key_count

\* C21: the errors of a candidate in the collection loop (duplicate path,
\* invalid format, derivation failure, unauthorized identity) never end the
\* session: while one of them is the last error reported, the collector is
\* Idle, the next candidate is being asked for and the finally block has not
\* been entered.
C21_CandidateErrorsContained ==
  /\ [](error \in CandidateErrors
          => pc = "d_resolve" /\ collector = "Idle" /\ handler = "none" /\ tempExists)
  /\ [][C21_CandidateStep]_vars

\* C21 witness: all four kinds of rejection have happened in one session,
\* which is asking for the next candidate.
C21_Witness ==
  /\ flow = "decrypt"
  /\ pc = "d_resolve"
  /\ {"kX", "kBad", "kM"} \subseteq DeclinedPaths
  /\ error \in {"already accepted", "already declined"}
  /\ handler = "none"

\* A step in which an external tool exits nonzero or prints something
\* malformed: age-keygen -y during the derivation, age-plugin-sss, age.
C22_ToolFailureStep ==
  (\/ /\ pc = "d_validate"
      /\ error' \in {"Error validating secret key",
                     "Generated public key doesn't match expected format"}
   \/ /\ pc = "d_combine"
      /\ error' \in {"Failed to generate combined identity from keys.",
                     "Error generating Shamir identity"}
   \/ /\ pc = "d_cipher"
      /\ error' \in {"Decryption failed. No valid identity was found",
                     "Error decrypting file"})
  => /\ pc' = "teardown"
     /\ handler' = "DecryptionError"

\* C22: a nonzero exit or malformed output of an external tool (age-keygen
\* during the derivation, age-plugin-sss, age) ends the session at that
\* stage: the error is reported and the finally block follows, no further
\* candidate is collected and no later stage runs.
C22_ToolFailureEndsSession == [][C22_ToolFailureStep]_vars

\* The files a decrypt session writes that hold the collected secrets or the
\* combined identity.
SensitiveFiles == {"decryption_secrets.yaml", "shamir_identity.yaml"}

\* C23: in a decrypt session the files that hold the collected secrets or
\* the combined identity exist only inside the working directory of the
\* session, and once the session has ended, whatever the outcome, none of
\* them exists any more; what the session writes elsewhere is the decrypted
\* output alone.
C23_SecretsOnlyInWorkingDirectory ==
  flow = "decrypt"
  => /\ tempFiles \subseteq SensitiveFiles
     /\ tempFiles # {} => (temp_dir # None /\ tempExists /\ pc \notin {"exit_prompt", "exit"})
     /\ pc \in {"exit_prompt", "exit"} => (tempFiles = {} /\ ~tempExists)
     /\ \A f \in outDir : f.label = "Decrypted"
     /\ DOMAIN keysDir = {}

\* C23 witness: a session that wrote the secrets file and the identity file
\* and then failed in age has ended, and the files are gone.
C23_Witness ==
  /\ flow = "decrypt"
  /\ pc = "exit"
  /\ error = "Error decrypting file"
  /\ Invocation("age-plugin-sss", <<"SA", "SB">>) \in invoked
  /\ Invocation("age", <<"-d", "shamir_identity.yaml">>) \in invoked
  /\ tempFiles = {}
  /\ rmtreeCalls = 1

\* The errors of get_shamir_identity: empty output, nonzero exit.
CombinationErrors ==
  {"Failed to generate combined identity from keys.",
   "Error generating Shamir identity"}

\* C24: when age-plugin-sss prints nothing or exits nonzero, the decrypt
\* session ends with the error of the combination: the identity file has
\* not been written, age has not been invoked and no output path has been
\* chosen or written.
C24_CombinationFailed ==
  error \in CombinationErrors
  => /\ flow = "decrypt"
     /\ pc \in EndPcs
     /\ handler = "DecryptionError"
     /\ Invocation("age-plugin-sss", key_secrets) \in invoked
     /\ "shamir_identity.yaml" \notin tempFiles
     /\ \A v \in invoked : v.tool # "age"
     /\ output = "none"
     /\ output_path = NoPath

\* C24 witness: the combination has just failed on a nonzero exit; the
\* secrets file is in the working directory, the identity file is not.
C24_Witness ==
  /\ pc = "teardown"
  /\ error = "Error generating Shamir identity"
  /\ tempFiles = {"decryption_secrets.yaml"}
  /\ Len(key_secrets) = 2

\* remaining_keys = self.required_key_count - valid_key_count
RemainingKeys == required_key_count - Len(key_secrets)

\* C25: once the collection of a decrypt session has begun, the number of
\* collected secrets is between 0 and the required number, so the remaining
\* count, required minus collected, is never negative, and it is 0 exactly
\* when the collector is Complete.
C25_CollectedWithinRequired ==
  (flow = "decrypt" /\ collector # "NotStarted")
  => /\ 0 <= Len(key_secrets)
     /\ Len(key_secrets) <= required_key_count
     /\ valid_key_count = Len(key_secrets)
     /\ RemainingKeys >= 0
     /\ RemainingKeys = 0 <=> collector = "Complete"

\* C25 witness: two of three required secrets are collected and a third
\* candidate is being validated.
C25_Witness ==
  /\ flow = "decrypt"
  /\ required_key_count = 3
  /\ Len(key_secrets) = 2
  /\ RemainingKeys = 1
  /\ pc = "d_commit"

\* The steps of the pipeline in their order; the format step stands for the
\* read and the format test.
PipelineOrder ==
  <<"resolve", "duplicate", "format", "derivation", "membership", "commit">>

\* s is the beginning of t.
IsPrefix(s, t) == Len(s) <= Len(t) /\ \A i \in DOMAIN s : s[i] = t[i]

\* The steps a candidate has gone through are a beginning of the fixed
\* order (a failed read ends it where the format step would be), and a
\* candidate reaches the derivation only with a secret line of its file.
C26_InOrder ==
  flow = "decrypt"
  => /\ \/ IsPrefix(steps, PipelineOrder)
        \/ steps = <<"resolve", "duplicate", "read failed">>
     /\ pc = "d_dupcheck" => steps = <<"resolve">>
     /\ pc = "d_extract" => steps = <<"resolve", "duplicate">>
     /\ pc = "d_validate" => steps = <<"resolve", "duplicate", "format">>
     /\ pc = "d_commit" => steps = SubSeq(PipelineOrder, 1, 5)
     /\ pc \in {"d_validate", "d_commit"}
          => \E i \in DOMAIN KeyFiles[key_path] :
               /\ KeyFiles[key_path][i].k = "secret"
               /\ KeyFiles[key_path][i].id = secret_key

\* The first failing step ends the pipeline of the candidate.
C26_ShortCircuitStep ==
  /\ (pc = "d_dupcheck" /\ pc' = "d_resolve")
       => /\ steps' = <<"resolve", "duplicate">>
          /\ attempted_keys' = attempted_keys
          /\ invoked' = invoked
  /\ (pc = "d_extract" /\ pc' = "d_resolve")
       => /\ steps' \in {<<"resolve", "duplicate", "format">>,
                         <<"resolve", "duplicate", "read failed">>}
          /\ key_path \in DOMAIN attempted_keys' /\ ~attempted_keys'[key_path]
          /\ invoked' = invoked
  /\ (pc = "d_validate" /\ pc' = "d_resolve" /\ error' # "This key was not one of the keys used to encrypt the file.")
       => /\ steps' = <<"resolve", "duplicate", "format", "derivation">>
          /\ key_path \in DOMAIN attempted_keys' /\ ~attempted_keys'[key_path]

\* C26: the steps of a candidate run in the order resolve, duplicate check,
\* format check, derivation, membership check, commit, and the first step
\* that fails ends the pipeline: a duplicate path is rejected before the
\* file is read, a file without a standalone secret line is rejected and
\* recorded declined before age-keygen is invoked, a derivation failure is
\* rejected and recorded declined before the membership check.
C26_PipelineOrder == []C26_InOrder /\ [][C26_ShortCircuitStep]_vars

\* C26 witness: the file without a secret line was rejected at the format
\* step, recorded declined, and age-keygen has not been invoked at all.
C26_Witness ==
  /\ flow = "decrypt"
  /\ pc = "d_resolve"
  /\ steps = <<"resolve", "duplicate", "format">>
  /\ "kBad" \in DeclinedPaths
  /\ error = "Invalid secret key format"
  /\ invoked = {}

\* ------------------------------------------- the collection with a user
\* who keeps answering
\* No prompt is answered with Ctrl-C or end of input, and the file dialog
\* can be shown.
Uninterrupted == input' \notin {"^C", "EOF", "no display"}

\* A step of a decrypt session with such a user.
NextCollect == (NextDecrypt \/ Teardown \/ ExitPrompt) /\ Uninterrupted

\* Decrypt sessions with such a user, in which the script is not suspended
\* and every prompt is answered in the end.
CollectSpec == InitDecrypt /\ [][NextCollect]_vars /\ WF_vars(NextCollect)

\* The distinct paths submitted so far whose file holds a well-formed
\* secret of an identity of the policy.
GoodSubmitted == {p \in DOMAIN attempted_keys : PassesValidation(p)}

\* C27: when the user keeps answering, is not interrupted and has submitted
\* threshold-many distinct paths that each hold a well-formed authorized
\* secret, among any rejected candidates, the collection loop reaches
\* Complete and the session goes on to invoke age-plugin-sss.
C27_EventuallyComplete ==
  (/\ flow = "decrypt"
   /\ pc = "d_resolve"
   /\ required_key_count >= 1
   /\ Cardinality(GoodSubmitted) >= required_key_count)
  ~> (collector = "Complete" /\ \E v \in invoked : v.tool = "age-plugin-sss")

\* The public keys of the first n key pairs generated in a session.
GeneratedKeys(n) == [i \in 1..n |-> GeneratedPublic(i)]

\* The step of generate_key_config that writes the policy: what is written
\* reads back as the threshold chosen and the public keys generated, in the
\* order of their generation.
C28_SaveStep ==
  (pc = "e_config" /\ pc' = "e_recipient")
  => /\ 1 <= threshold /\ threshold <= num_identities /\ num_identities <= 10
     /\ public_keys = GeneratedKeys(num_identities)
     /\ policy' = <<Thr(threshold), SharesHdr>>
                    \o [i \in 1..num_identities |-> Share(GeneratedPublic(i))]
     /\ get_recipient_config(policy').ok
     /\ get_recipient_config(policy').threshold = threshold
     /\ get_recipient_config(policy').recipient_public_keys = public_keys
     /\ get_recipient_config(policy').total_shares = num_identities

\* After new keys were generated and the policy saved, the policy artifact
\* keeps that content.
C28_Saved ==
  (flow = "encrypt" /\ key_choice = "1" /\ pc \in {"e_recipient", "e_encrypt"})
  => /\ get_recipient_config(policy).ok
     /\ get_recipient_config(policy).threshold = threshold
     /\ get_recipient_config(policy).recipient_public_keys = GeneratedKeys(num_identities)
     /\ 1 <= threshold /\ threshold <= num_identities /\ num_identities <= 10

\* C28: when the generation of new keys ends with the overwrite authorized,
\* the saved policy artifact records exactly the threshold t the user chose
\* and exactly the public identities of the n keys generated in the session,
\* in generation order, with 1 <= t <= n <= 10.
C28_SavedPolicyContent == []C28_Saved /\ [][C28_SaveStep]_vars

\* C28 witness: a policy of threshold 2 over three generated keys has been
\* saved over an existing one.
C28_Witness ==
  /\ flow = "encrypt"
  /\ pc = "e_recipient"
  /\ threshold = 2
  /\ num_identities = 3
  /\ policy = generate_key_config(2, <<"age1g1", "age1g2", "age1g3">>)

\* C29: after the generation of new keys has saved the policy, the keys
\* folder holds, for every public identity listed in the policy, a key file
\* with the secret of that identity, whatever names the user entered for the
\* keys, two equal names included; so at least threshold-many usable key
\* files exist.
C29_KeyFilePerIdentity ==
  (flow = "encrypt" /\ key_choice = "1" /\ pc \in {"e_recipient", "e_encrypt"})
  => /\ \A i \in 1..num_identities :
          /\ GeneratedPublic(i) \in Range(get_recipient_config(policy).recipient_public_keys)
          /\ \E f \in DOMAIN keysDir : keysDir[f] = GeneratedSecret(i)
     /\ Cardinality(DOMAIN keysDir) >= threshold

\* C30: when the user declines to overwrite the existing policy after new
\* keys were asked for, the keys folder is as it was before the session: no
\* key file has been created and none has been written over.
C30_KeysUntouchedOnDecline ==
  error = "File overwrite cancelled" => DOMAIN keysDir = {}

\* C31: after an encrypt session that has completed successfully, the
\* encrypted folder holds exactly one ciphertext and exactly one policy
\* artifact, whatever it held before, so that the setup of a following
\* decrypt session finds nothing missing and nothing ambiguous.
C31_FolderReadyForDecrypt ==
  (flow = "encrypt" /\ output = "written" /\ handler = "none" /\ pc \in EndPcs)
  => /\ fs.nAge = 1
     /\ fs.nYaml = 1
     /\ ~SetupProblems(fs)

\* The load of a decrypt session whose policy artifact is the placeholder.
C33_LoadStep ==
  (flow = "decrypt" /\ policy = BlankConfig /\ pc = "d_load")
  => /\ pc' = "teardown"
     /\ handler' = "DecryptionError"
     /\ error' \in {"Config file not found",
                    "Unable to find threshold value in config file"}
     /\ ~requested'

\* C33: a decrypt session whose policy artifact is the blank placeholder that
\* the encrypt-side setup writes never gets past the load: the load raises a
\* DecryptionError, no threshold and no identity is taken from the file, and
\* no candidate is requested at any time of the session.
C33_PlaceholderRejected ==
  /\ []((flow = "decrypt" /\ policy = BlankConfig)
        => /\ pc \notin CollectionPcs
           /\ collector = "NotStarted"
           /\ ~requested
           /\ required_key_count = 0
           /\ valid_public_keys = <<>>)
  /\ [][C33_LoadStep]_vars

C33_Witness ==
  /\ flow = "decrypt"
  /\ policy = BlankConfig
  /\ pc = "exit"
  /\ handler = "DecryptionError"
  /\ error = "Unable to find threshold value in config file"
  /\ ~requested

\* C34: whenever the collector of a decrypt session is Idle or Complete, the
\* ledger entries recorded as accepted, the collected secrets and the
\* accepted-key counter are equal in number; while it is Idle the key number
\* of the prompt is the counter plus one and the step of the banner is the
\* counter plus two; and from the load on no banner shows a step beyond the
\* total, which is the threshold plus three.
C34_CountersAgree ==
  flow = "decrypt"
  => /\ collector \in {"Idle", "Complete"}
          => /\ Cardinality(AcceptedPaths) = Len(key_secrets)
             /\ Len(key_secrets) = valid_key_count
     /\ collector = "Idle"
          => /\ current_key_number = valid_key_count + 1
             /\ current_step = valid_key_count + 2
     /\ pc \in CollectionPcs
          => /\ total_steps = required_key_count + 3
             /\ current_step <= total_steps

C34_Witness ==
  /\ flow = "decrypt"
  /\ collector = "Complete"
  /\ pc = "d_view"
  /\ valid_key_count = 2
  /\ Cardinality(AcceptedPaths) = 2
  /\ DeclinedPaths # {}
  /\ current_key_number = 2
  /\ current_step = total_steps

\* A decrypt session on the files of an encrypt session that generated its
\* keys under pairwise distinct names.
RoundTrip ==
  /\ flow = "decrypt"
  /\ key_choice = "1"
  /\ Cardinality(DOMAIN keysDir) = num_identities

\* Each check of a generated key file passes.
C32_CheckStep ==
  RoundTrip
  => /\ pc = "d_dupcheck" /\ key_path \notin DOMAIN attempted_keys => pc' = "d_extract"
     /\ pc = "d_extract" => pc' = "d_validate" /\ secret_key' = keysDir[key_path]
     /\ pc = "d_validate" => pc' = "d_commit" /\ public_key' \in Range(public_keys)
     /\ pc = "d_commit" => attempted_keys' = Record(attempted_keys, key_path, TRUE)

\* C32: in a decrypt session that follows an encrypt session which generated
\* n keys under distinct names with threshold t into a folder without earlier
\* ciphertext, the setup finds its files, the load reads back t and the n
\* generated identities, every generated key file that is picked passes the
\* format, derivation and membership checks and is accepted, and the
\* collector is Complete exactly when t files have been submitted.
C32_RoundTrip ==
  /\ [](RoundTrip
        => /\ error \notin {"Missing required files",
                            "Unable to find threshold value in config file",
                            "Unable to find shares in config file"}
           /\ DeclinedPaths = {}
           /\ pc \in CollectionPcs
                => /\ required_key_count = threshold
                   /\ valid_public_keys = public_keys
                   /\ total_shares = num_identities
                   /\ collector = "Complete"
                        <=> Cardinality(DOMAIN attempted_keys) = threshold)
  /\ [][C32_CheckStep]_vars

C32_Witness ==
  /\ RoundTrip
  /\ num_identities = 3
  /\ threshold = 2
  /\ collector = "Complete"
  /\ pc = "d_view"
  /\ output = "written"
  /\ Cardinality(AcceptedPaths) = 2
  /\ "Bob" \in AcceptedPaths
  /\ "Key1" \notin DOMAIN attempted_keys

=============================================================================
